---- MODULE Spec2Model ----
(***************************************************************************)
(* The geode_faucet contract (src/lib.rs): ContractStorage and its         *)
(* messages set_root_account, set_payouts_and_fund, check_eligibility,     *)
(* get_coin and verify_account, as a state machine.  One action is one     *)
(* message call, executed atomically by the ledger.                        *)
(*                                                                         *)
(* Integer widths are scaled down: Balance and u128 values live in         *)
(* 0..BalanceMax (saturating_add clamps at BalanceMax), u64 timestamps in  *)
(* 0..MaxTime (wrapping_sub is taken modulo TimeMod).                      *)
(***************************************************************************)
EXTENDS Integers, Sequences, FiniteSets, TLC

\* ------------------------------------------------------------------ bounds

\* Largest value of the (scaled) Balance / u128 type.
BalanceMax == 3
\* Largest block timestamp of a run; the (scaled) u64 holds 0..MaxTime.
MaxTime == 2
TimeMod == MaxTime + 1

\* ---------------------------------------------------------------- universe

\* Accounts that can sign a call.
Callers == {"A", "B"}
\* AccountId::from([0x0; 32]): the root before any admin is designated.
ZeroAccount == "Z"
Accounts == Callers \cup {ZeroAccount}
\* Client-supplied network addresses (my_ip_address).
Addrs == {"ip1", "ip2"}
\* The addresses a caller supplies: A reports either address, B always ip1
\* (up to renaming, this leaves out only the states in which both accounts
\* are registered with both addresses).
AddrsOf(caller) == IF caller = "A" THEN Addrs ELSE {"ip1"}

\* Values the admin supplies to set_payouts_and_fund.
EligibleChoices == {1}
GetChoices == {0, 2}
TimerChoices == {2}
IpTotalChoices == {1, 2}
\* Values attached to a payable call (constructor or funding).
FundChoices == {0, 3}

\* user_map.get(caller) of an absent key.
NoRecord == [absent |-> TRUE]
\* The call made no transfer.
NoTransfer == [to |-> "none", amount |-> 0]

VARIABLES
    user_map,               \* Mapping<AccountId, Pebble>; NoRecord when absent
    ipaddress_count,        \* Mapping<Vec<u8>, Vec<AccountId>>; <<>> when absent
    root,                   \* AccountId
    rootset,                \* u8
    eligible_payout,        \* Balance
    get_payout,             \* Balance
    limit_timer,            \* u64
    limit_ip_total,         \* u128
    total_pebble_accounts,  \* u128
    total_payouts,          \* Balance
    balance,                \* env().balance(): the contract's own balance
    now,                    \* env().block_timestamp()
    last_paid               \* history: per account, the time of the latest
                            \* non-zero transfer to it under the settings in
                            \* force, or -1 (recorded by SpecPaid only)

settings == <<eligible_payout, get_payout, limit_timer, limit_ip_total>>
storage == <<user_map, ipaddress_count, root, rootset, settings,
             total_pebble_accounts, total_payouts>>
vars == <<storage, balance, now, last_paid>>

\* ----------------------------------------------------------------- helpers

\* Faulty variant of saturating_add: the sum wraps at the top of the type.
saturating_add_wrapping(a, b) == (a + b) % (BalanceMax + 1)

\* Balance::saturating_add / u128::saturating_add
saturating_add(a, b) == IF a + b > BalanceMax THEN BalanceMax ELSE a + b

\* Faulty variant of wrapping_sub: the operands are swapped.
wrapping_sub_swapped(a, b) == (b - a) % TimeMod

\* u64::wrapping_sub
wrapping_sub(a, b) == (a - b) % TimeMod

\* Faulty variant of contains: only the first element is compared.
contains_first(s, x) == Len(s) >= 1 /\ s[1] = x

\* Vec::contains
contains(s, x) == \E i \in 1..Len(s) : s[i] = x

\* Pebble::default()
DefaultPebble ==
    [timestamp |-> 0, ip_address |-> "", pebble |-> ZeroAccount, payout |-> 0]

\* Mapping::contains
contains_key(map, key) == map[key] # NoRecord

\* self.user_map.contains(&account)
has_record(account) == contains_key(user_map, account)

\* self.user_map.get(caller).unwrap_or_default()
user_details(caller) ==
    IF has_record(caller) THEN user_map[caller] ELSE DefaultPebble

\* self.ipaddress_count.get(ip).unwrap_or_default()
ip_tags(ip) == ipaddress_count[ip]

\* now.wrapping_sub(user_details.timestamp)
time_since(caller) == wrapping_sub(now, user_details(caller).timestamp)

\* Faulty variant of check_allowed: the cooldown is waived by the absence of a
\* record, not by a payout of 0.
check_allowed_by_record(caller, ip) ==
    /\ (Len(ip_tags(ip)) < limit_ip_total \/ contains(ip_tags(ip), caller))
    /\ (time_since(caller) >= limit_timer \/ ~has_record(caller))

\* The condition of check_eligibility (lib.rs 189-190).
check_allowed(caller, ip) ==
    /\ (Len(ip_tags(ip)) < limit_ip_total \/ contains(ip_tags(ip), caller))
    /\ (time_since(caller) >= limit_timer \/ user_details(caller).payout = 0)

\* Faulty variant of claim_allowed: the cooldown is not waived for an account that
\* was never paid.
claim_allowed_no_waiver(caller, ip) ==
    /\ (Len(ip_tags(ip)) < limit_ip_total \/ contains(ip_tags(ip), caller))
    /\ time_since(caller) >= limit_timer

\* Faulty variant of claim_allowed: the cap admits one account too many.
claim_allowed_cap_inclusive(caller, ip) ==
    /\ (Len(ip_tags(ip)) <= limit_ip_total \/ contains(ip_tags(ip), caller))
    /\ (time_since(caller) >= limit_timer \/ user_details(caller).payout < 1)

\* Faulty variant of claim_allowed: the cooldown is waived by the absence of a record
\* instead of by a zero payout.
claim_allowed_by_record(caller, ip) ==
    /\ (Len(ip_tags(ip)) < limit_ip_total \/ contains(ip_tags(ip), caller))
    /\ (time_since(caller) >= limit_timer \/ ~has_record(caller))

\* The condition of get_coin (lib.rs 239-240).
claim_allowed(caller, ip) ==
    /\ (Len(ip_tags(ip)) < limit_ip_total \/ contains(ip_tags(ip), caller))
    /\ (time_since(caller) >= limit_timer \/ user_details(caller).payout < 1)

\* PayoutEvent
PayoutEvent(ts, ip, caller, amount) ==
    [timestamp |-> ts, user_ip |-> ip, pebble |-> caller, payout |-> amount]

\* Faulty variant of verify_account: an account counts once it was credited a
\* non-zero payout.
verify_account_by_payout(verify) ==
    IF user_details(verify).payout > 0 THEN 1 ELSE 0

\* verify_account (read-only message)
verify_account(verify) == IF has_record(verify) THEN 1 ELSE 0

\* ---------------------------------------------------------------- messages
\* Each message is a function of the state it is called in and of its inputs:
\* its return value (result), the storage and balance it leaves, the events
\* it emits (emitted) and the transfer it makes (paid).  `transfer_ok` is the
\* outcome of env().transfer, should the call attempt one.

\* Faulty variant of set_root_account_call: the new root is compared with the
\* stored one instead of the caller.
set_root_account_call_by_arg(caller, new_root) ==
    IF rootset # 1 \/ root = new_root
    THEN [result |-> "Ok", root |-> new_root, rootset |-> 1]
    ELSE [result |-> "PermissionDenied", root |-> root, rootset |-> rootset]

set_root_account_call(caller, new_root) ==
    IF rootset # 1 \/ root = caller
    THEN [result |-> "Ok", root |-> new_root, rootset |-> 1]
    ELSE [result |-> "PermissionDenied", root |-> root, rootset |-> rootset]

\* Faulty variant of set_payouts_and_fund_call: the guard of set_root_account, which
\* lets anyone through until a root is set.
set_payouts_and_fund_call_unset(caller, new_eligible_payout, new_get_payout, new_limit_timer, new_limit_ip_total, value) ==
    IF rootset # 1 \/ root = caller
    THEN [result |-> "Ok",
          eligible_payout |-> new_eligible_payout,
          get_payout |-> new_get_payout,
          limit_timer |-> new_limit_timer,
          limit_ip_total |-> new_limit_ip_total,
          balance |-> balance + value]
    ELSE [result |-> "PermissionDenied",
          eligible_payout |-> eligible_payout,
          get_payout |-> get_payout,
          limit_timer |-> limit_timer,
          limit_ip_total |-> limit_ip_total,
          balance |-> balance]

\* `value` is the balance attached to the payable call; a call that returns
\* Err is reverted by the ledger, attached value included.
set_payouts_and_fund_call(caller, new_eligible_payout, new_get_payout, new_limit_timer, new_limit_ip_total, value) ==
    IF root = caller
    THEN [result |-> "Ok",
          eligible_payout |-> new_eligible_payout,
          get_payout |-> new_get_payout,
          limit_timer |-> new_limit_timer,
          limit_ip_total |-> new_limit_ip_total,
          balance |-> balance + value]
    ELSE [result |-> "PermissionDenied",
          eligible_payout |-> eligible_payout,
          get_payout |-> get_payout,
          limit_timer |-> limit_timer,
          limit_ip_total |-> limit_ip_total,
          balance |-> balance]

\* Faulty variant of check_eligibility_call: a failed transfer is not reported.
check_eligibility_call_failure_unreported(caller, my_ip_address, transfer_ok) ==
    IF check_allowed(caller, my_ip_address)
    THEN LET event == PayoutEvent(now, my_ip_address, caller, eligible_payout)
         IN  IF balance > eligible_payout
             THEN IF transfer_ok
                  THEN [result |-> 1,
                        balance |-> balance - eligible_payout,
                        paid |-> [to |-> caller, amount |-> eligible_payout],
                        emitted |-> <<event>>]
                  ELSE [result |-> 1, balance |-> balance,
                        paid |-> NoTransfer, emitted |-> <<event>>]
             ELSE [result |-> 1, balance |-> balance,
                   paid |-> NoTransfer, emitted |-> <<event>>]
    ELSE [result |-> 0, balance |-> balance,
          paid |-> NoTransfer, emitted |-> <<>>]

\* Faulty variant of check_eligibility_call: the event is emitted only when
\* the transfer was made.
check_eligibility_call_event_when_paid(caller, my_ip_address, transfer_ok) ==
    IF check_allowed(caller, my_ip_address)
    THEN LET event == PayoutEvent(now, my_ip_address, caller, eligible_payout)
         IN  IF balance > eligible_payout
             THEN IF transfer_ok
                  THEN [result |-> 1,
                        balance |-> balance - eligible_payout,
                        paid |-> [to |-> caller, amount |-> eligible_payout],
                        emitted |-> <<event>>]
                  ELSE [result |-> 2, balance |-> balance,
                        paid |-> NoTransfer, emitted |-> <<>>]
             ELSE [result |-> 1, balance |-> balance,
                   paid |-> NoTransfer, emitted |-> <<>>]
    ELSE [result |-> 0, balance |-> balance,
          paid |-> NoTransfer, emitted |-> <<>>]

\* Faulty variant of check_eligibility_call: the transfer is attempted when
\* the balance merely covers the payout.
check_eligibility_call_floor_inclusive(caller, my_ip_address, transfer_ok) ==
    IF check_allowed(caller, my_ip_address)
    THEN LET event == PayoutEvent(now, my_ip_address, caller, eligible_payout)
         IN  IF balance >= eligible_payout
             THEN IF transfer_ok
                  THEN [result |-> 1,
                        balance |-> balance - eligible_payout,
                        paid |-> [to |-> caller, amount |-> eligible_payout],
                        emitted |-> <<event>>]
                  ELSE [result |-> 2, balance |-> balance,
                        paid |-> NoTransfer, emitted |-> <<event>>]
             ELSE [result |-> 1, balance |-> balance,
                   paid |-> NoTransfer, emitted |-> <<event>>]
    ELSE [result |-> 0, balance |-> balance,
          paid |-> NoTransfer, emitted |-> <<>>]

\* check_eligibility: result 1 on an allowed call, 2 if the transfer fails; the
\* transfer is attempted only above the balance floor, the event always.
check_eligibility_call(caller, my_ip_address, transfer_ok) ==
    IF check_allowed(caller, my_ip_address)
    THEN LET event == PayoutEvent(now, my_ip_address, caller, eligible_payout)
         IN  IF balance > eligible_payout
             THEN IF transfer_ok
                  THEN [result |-> 1,
                        balance |-> balance - eligible_payout,
                        paid |-> [to |-> caller, amount |-> eligible_payout],
                        emitted |-> <<event>>]
                  ELSE [result |-> 2, balance |-> balance,
                        paid |-> NoTransfer, emitted |-> <<event>>]
             ELSE [result |-> 1, balance |-> balance,
                   paid |-> NoTransfer, emitted |-> <<event>>]
    ELSE [result |-> 0, balance |-> balance,
          paid |-> NoTransfer, emitted |-> <<>>]

\* get_coin returning Err: nothing is written, transferred or emitted.
get_coin_err(error) ==
    [result |-> error,
     user_map |-> user_map,
     ipaddress_count |-> ipaddress_count,
     total_payouts |-> total_payouts,
     total_pebble_accounts |-> total_pebble_accounts,
     balance |-> balance,
     paid |-> NoTransfer,
     emitted |-> <<>>]

\* Faulty variant of get_coin_update: the caller is pushed without the contains test.
get_coin_update_always_push(caller, my_ip_address, transfer) ==
    [result |-> "Ok",
     user_map |-> [user_map EXCEPT ![caller] =
        [timestamp |-> now,
         ip_address |-> my_ip_address,
         pebble |-> caller,
         payout |-> saturating_add(user_details(caller).payout, get_payout)]],
     ipaddress_count |->
        [ipaddress_count EXCEPT ![my_ip_address] =
            Append(ip_tags(my_ip_address), caller)],
     total_payouts |-> saturating_add(total_payouts, get_payout),
     total_pebble_accounts |->
        IF ~has_record(caller)
        THEN saturating_add(total_pebble_accounts, 1)
        ELSE total_pebble_accounts,
     balance |-> balance - transfer.amount,
     paid |-> transfer,
     emitted |-> <<PayoutEvent(now, my_ip_address, caller, get_payout)>>]

\* Faulty variant of get_coin_update: every claim counts as a new account.
get_coin_update_always_count(caller, my_ip_address, transfer) ==
    [result |-> "Ok",
     user_map |-> [user_map EXCEPT ![caller] =
        [timestamp |-> now,
         ip_address |-> my_ip_address,
         pebble |-> caller,
         payout |-> saturating_add(user_details(caller).payout, get_payout)]],
     ipaddress_count |->
        IF contains(ip_tags(my_ip_address), caller)
        THEN ipaddress_count
        ELSE [ipaddress_count EXCEPT ![my_ip_address] =
                 Append(ip_tags(my_ip_address), caller)],
     total_payouts |-> saturating_add(total_payouts, get_payout),
     total_pebble_accounts |->
        saturating_add(total_pebble_accounts, 1),
     balance |-> balance - transfer.amount,
     paid |-> transfer,
     emitted |-> <<PayoutEvent(now, my_ip_address, caller, get_payout)>>]

\* Faulty variant of get_coin_update: total_payouts grows by the amount that
\* was transferred, so a skipped transfer adds nothing.
get_coin_update_paid_volume(caller, my_ip_address, transfer) ==
    [result |-> "Ok",
     user_map |-> [user_map EXCEPT ![caller] =
        [timestamp |-> now,
         ip_address |-> my_ip_address,
         pebble |-> caller,
         payout |-> saturating_add(user_details(caller).payout, get_payout)]],
     ipaddress_count |->
        IF contains(ip_tags(my_ip_address), caller)
        THEN ipaddress_count
        ELSE [ipaddress_count EXCEPT ![my_ip_address] =
                 Append(ip_tags(my_ip_address), caller)],
     total_payouts |-> saturating_add(total_payouts, transfer.amount),
     total_pebble_accounts |->
        IF ~has_record(caller)
        THEN saturating_add(total_pebble_accounts, 1)
        ELSE total_pebble_accounts,
     balance |-> balance - transfer.amount,
     paid |-> transfer,
     emitted |-> <<PayoutEvent(now, my_ip_address, caller, get_payout)>>]

\* The bookkeeping of get_coin once the transfer step is passed
\* (lib.rs 250-283); `transfer` is the transfer that step made.
get_coin_update(caller, my_ip_address, transfer) ==
    [result |-> "Ok",
     user_map |-> [user_map EXCEPT ![caller] =
        [timestamp |-> now,
         ip_address |-> my_ip_address,
         pebble |-> caller,
         payout |-> saturating_add(user_details(caller).payout, get_payout)]],
     ipaddress_count |->
        IF contains(ip_tags(my_ip_address), caller)
        THEN ipaddress_count
        ELSE [ipaddress_count EXCEPT ![my_ip_address] =
                 Append(ip_tags(my_ip_address), caller)],
     total_payouts |-> saturating_add(total_payouts, get_payout),
     total_pebble_accounts |->
        IF ~has_record(caller)
        THEN saturating_add(total_pebble_accounts, 1)
        ELSE total_pebble_accounts,
     balance |-> balance - transfer.amount,
     paid |-> transfer,
     emitted |-> <<PayoutEvent(now, my_ip_address, caller, get_payout)>>]

\* Faulty variant of get_coin_call: a failed transfer is passed over, as in
\* check_eligibility, and the bookkeeping proceeds.
get_coin_call_fail_ignored(caller, my_ip_address, transfer_ok) ==
    IF claim_allowed(caller, my_ip_address)
    THEN IF balance > get_payout
         THEN IF transfer_ok
              THEN get_coin_update(caller, my_ip_address,
                                   [to |-> caller, amount |-> get_payout])
              ELSE get_coin_update(caller, my_ip_address, NoTransfer)
         ELSE get_coin_update(caller, my_ip_address, NoTransfer)
    ELSE get_coin_err("PermissionDenied")

\* Faulty variant of get_coin_call: the transfer is attempted when the balance
\* merely covers the payout.
get_coin_call_floor_inclusive(caller, my_ip_address, transfer_ok) ==
    IF claim_allowed(caller, my_ip_address)
    THEN IF balance >= get_payout
         THEN IF transfer_ok
              THEN get_coin_update(caller, my_ip_address,
                                   [to |-> caller, amount |-> get_payout])
              ELSE get_coin_err("PayoutFailed")
         ELSE get_coin_update(caller, my_ip_address, NoTransfer)
    ELSE get_coin_err("PermissionDenied")

get_coin_call(caller, my_ip_address, transfer_ok) ==
    IF claim_allowed(caller, my_ip_address)
    THEN IF balance > get_payout
         THEN IF transfer_ok
              THEN get_coin_update(caller, my_ip_address,
                                   [to |-> caller, amount |-> get_payout])
              ELSE get_coin_err("PayoutFailed")
         ELSE get_coin_update(caller, my_ip_address, NoTransfer)
    ELSE get_coin_err("PermissionDenied")

\* ------------------------------------------------------------------- state

\* ContractStorage::new(); the constructor is payable.
Init ==
    /\ user_map = [a \in Callers |-> NoRecord]
    /\ ipaddress_count = [ip \in Addrs |-> <<>>]
    /\ root = ZeroAccount
    /\ rootset = 0
    /\ eligible_payout = 0
    /\ get_payout = 0
    /\ limit_timer = 0
    /\ limit_ip_total = 0
    /\ total_pebble_accounts = 0
    /\ total_payouts = 0
    /\ balance \in FundChoices
    /\ now = 0
    /\ last_paid = [a \in Callers |-> -1]

\* ----------------------------------------------------------------- actions
\* One action per message call: the state becomes what the call leaves.

\* The ledger produces a later block.
Tick ==
    /\ now < MaxTime
    /\ now' = now + 1
    /\ UNCHANGED <<storage, balance>>

set_root_account(caller, new_root) ==
    LET call == set_root_account_call(caller, new_root)
    IN  /\ root' = call.root
        /\ rootset' = call.rootset
        /\ UNCHANGED <<user_map, ipaddress_count, settings,
                       total_pebble_accounts, total_payouts, balance, now>>

set_payouts_and_fund(caller, new_eligible_payout, new_get_payout, new_limit_timer, new_limit_ip_total, value) ==
    LET call == set_payouts_and_fund_call(caller, new_eligible_payout,
                    new_get_payout, new_limit_timer, new_limit_ip_total, value)
    IN  /\ balance + value <= BalanceMax
        /\ eligible_payout' = call.eligible_payout
        /\ get_payout' = call.get_payout
        /\ limit_timer' = call.limit_timer
        /\ limit_ip_total' = call.limit_ip_total
        /\ balance' = call.balance
        /\ UNCHANGED <<user_map, ipaddress_count, root, rootset,
                       total_pebble_accounts, total_payouts, now>>

\* Faulty variant of check_eligibility: an allowed call stamps the caller's
\* record with the time and the address of the call.
check_eligibility_stamps(caller, my_ip_address, transfer_ok) ==
    LET call == check_eligibility_call(caller, my_ip_address, transfer_ok)
    IN  /\ balance' = call.balance
        /\ user_map' =
              IF call.result = 0
              THEN user_map
              ELSE [user_map EXCEPT ![caller] =
                       [timestamp |-> now,
                        ip_address |-> my_ip_address,
                        pebble |-> caller,
                        payout |-> user_details(caller).payout]]
        /\ UNCHANGED <<ipaddress_count, root, rootset, settings,
                       total_pebble_accounts, total_payouts, now>>

\* check_eligibility takes &self: it writes no storage.
check_eligibility(caller, my_ip_address, transfer_ok) ==
    LET call == check_eligibility_call(caller, my_ip_address, transfer_ok)
    IN  /\ balance' = call.balance
        /\ UNCHANGED <<storage, now>>

get_coin(caller, my_ip_address, transfer_ok) ==
    LET call == get_coin_call(caller, my_ip_address, transfer_ok)
    IN  /\ user_map' = call.user_map
        /\ ipaddress_count' = call.ipaddress_count
        /\ total_payouts' = call.total_payouts
        /\ total_pebble_accounts' = call.total_pebble_accounts
        /\ balance' = call.balance
        /\ UNCHANGED <<root, rootset, settings, now>>

SetRoot ==
    \E c \in Callers, n \in Accounts :
        set_root_account(c, n) /\ UNCHANGED last_paid

SetPayouts ==
    \E c \in Callers, e \in EligibleChoices, g \in GetChoices,
       t \in TimerChoices, l \in IpTotalChoices, v \in FundChoices :
        set_payouts_and_fund(c, e, g, t, l, v) /\ UNCHANGED last_paid

CheckEligibility ==
    \E c \in Callers : \E ip \in AddrsOf(c), ok \in BOOLEAN :
        check_eligibility(c, ip, ok) /\ UNCHANGED last_paid

GetCoin ==
    \E c \in Callers : \E ip \in AddrsOf(c), ok \in BOOLEAN :
        get_coin(c, ip, ok) /\ UNCHANGED last_paid

NextBlock == Tick /\ UNCHANGED last_paid

Next == NextBlock \/ SetRoot \/ SetPayouts \/ CheckEligibility \/ GetCoin

Spec == Init /\ [][Next]_vars

\* ------------------------------------------------- history of the transfers
\* The same calls, with last_paid recording the transfers they make: a
\* non-zero transfer to an account stamps it with the time of the call, and a
\* change of the settings by the admin clears every stamp.

\* The address the callers of SpecPaid supply.
PaidAddrs == {"ip1"}

stamp(caller, transfer) ==
    IF transfer.amount >= 1
    THEN [last_paid EXCEPT ![caller] = now]
    ELSE last_paid

PaidSetRoot ==
    \E c \in Callers, n \in Accounts :
        set_root_account(c, n) /\ UNCHANGED last_paid

PaidSetPayouts ==
    \E c \in Callers, e \in EligibleChoices, g \in GetChoices,
       t \in TimerChoices, l \in IpTotalChoices, v \in FundChoices :
        /\ set_payouts_and_fund(c, e, g, t, l, v)
        /\ last_paid' = IF settings' # settings
                        THEN [a \in Callers |-> -1]
                        ELSE last_paid

PaidCheckEligibility ==
    \E c \in Callers, ip \in PaidAddrs, ok \in BOOLEAN :
        /\ check_eligibility(c, ip, ok)
        /\ last_paid' = stamp(c, check_eligibility_call(c, ip, ok).paid)

PaidGetCoin ==
    \E c \in Callers, ip \in PaidAddrs, ok \in BOOLEAN :
        /\ get_coin(c, ip, ok)
        /\ last_paid' = stamp(c, get_coin_call(c, ip, ok).paid)

PaidNextBlock == Tick /\ UNCHANGED last_paid

NextPaid ==
    PaidNextBlock \/ PaidSetRoot \/ PaidSetPayouts \/ PaidCheckEligibility
        \/ PaidGetCoin

SpecPaid == Init /\ [][NextPaid]_vars

\* ------------------------------------------------- small claim payouts
\* The same calls, with the claim payouts the admin sets small enough for two
\* accounts to be credited before the totals saturate.

VolumeChoices == {1, 2}

VolumeSetPayouts ==
    \E c \in Callers, e \in EligibleChoices, g \in VolumeChoices,
       t \in TimerChoices, l \in IpTotalChoices, v \in FundChoices :
        set_payouts_and_fund(c, e, g, t, l, v) /\ UNCHANGED last_paid

NextVolume ==
    NextBlock \/ SetRoot \/ VolumeSetPayouts \/ CheckEligibility \/ GetCoin

SpecVolume == Init /\ [][NextVolume]_vars

\* ================================================================== claims
\* The vocabulary of the specification, read off the storage.

\* AccountRecord.last_claim_timestamp; 0 if never claimed.
last_claim_timestamp(a) ==
    IF user_map[a] = NoRecord THEN 0 ELSE user_map[a].timestamp

\* AccountRecord.cumulative_payout; 0 if never claimed.
cumulative_payout(a) ==
    IF user_map[a] = NoRecord THEN 0 ELSE user_map[a].payout

\* The accounts of the tag set of an address.
tag_set(ip) == {ipaddress_count[ip][i] : i \in 1..Len(ipaddress_count[ip])}

\* Time elapsed since the account's last claim (wrapping).
elapsed(a) == (now - last_claim_timestamp(a)) % TimeMod

\* The transfer of get_coin is attempted and fails.
transfer_fails(amount, ok) == balance > amount /\ ~ok

\* ---------------------------------------------------------------------- C1

\* C1 as stated: for every account that has no record, get_coin returns ok
\* whatever the time and the address, and verify_account is 0 before the call
\* and 1 after it.
C1_FirstClaimAlwaysSucceeds ==
    \A c \in Callers, ip \in Addrs, ok \in BOOLEAN :
        user_map[c] = NoRecord =>
            LET call == get_coin_call(c, ip, ok)
            IN  /\ call.result = "Ok"
                /\ verify_account(c) = 0
                /\ contains_key(call.user_map, c)

C1_FirstClaimInv ==
    \A c \in Callers, ip \in Addrs, ok \in BOOLEAN :
        user_map[c] = NoRecord =>
            LET call == get_coin_call(c, ip, ok)
            IN  /\ verify_account(c) = 0
                /\ call.result = "Ok" <=>
                      /\ Len(ipaddress_count[ip]) < limit_ip_total
                      /\ ~transfer_fails(get_payout, ok)
                /\ call.result = "PermissionDenied" <=>
                      Len(ipaddress_count[ip]) >= limit_ip_total
                /\ call.result = "Ok" <=> contains_key(call.user_map, c)

C1_FirstClaimStep ==
    \A c \in Callers, ip \in Addrs, ok \in BOOLEAN :
        (/\ user_map'[c] # user_map[c]
         /\ user_map[c] = NoRecord
         /\ get_coin(c, ip, ok)
         /\ get_coin_call(c, ip, ok).result = "Ok")
            => verify_account(c) = 0 /\ verify_account(c)' = 1

\* C1 as amended: the first get_coin of an account that has no record is
\* never refused for the cooldown, whatever the time: it returns ok exactly
\* when the tag set of the supplied address holds fewer than
\* max_accounts_per_address accounts and the transfer, if attempted, does
\* not fail; it returns PermissionDenied exactly when the tag set has reached
\* the cap.  verify_account is 0 before the call and 1 after it exactly when
\* the call returns ok.
C1_FirstClaim == []C1_FirstClaimInv /\ [][C1_FirstClaimStep]_vars

\* An account claimed for the first time at a time earlier than the window.
C1_Witness ==
    \E c \in Callers :
        /\ verify_account(c) = 1
        /\ total_pebble_accounts >= 1
        /\ limit_timer >= 1
        /\ user_map[c].timestamp < limit_timer
        /\ user_map[c].timestamp = now

\* ---------------------------------------------------------------------- C2

\* C2 as stated: once an account has a successful get_coin at time t, every
\* get_coin by it at a time less than rate_limit_window after t returns
\* PermissionDenied, for every address.
C2_RepeatClaimDenied ==
    \A c \in Callers, ip \in Addrs, ok \in BOOLEAN :
        (user_map[c] # NoRecord /\ now - user_map[c].timestamp < limit_timer)
            => get_coin_call(c, ip, ok).result = "PermissionDenied"

\* C2 as amended: the cooldown is waived for the accounts whose
\* cumulative_payout is 0: once an account has a record with a non-zero
\* cumulative_payout, every get_coin by it at a time less than
\* rate_limit_window after its latest successful get_coin returns
\* PermissionDenied, for every address.
C2_PaidRepeatClaimDenied ==
    \A c \in Callers, ip \in Addrs, ok \in BOOLEAN :
        (/\ user_map[c] # NoRecord
         /\ user_map[c].payout >= 1
         /\ now - user_map[c].timestamp < limit_timer)
            => get_coin_call(c, ip, ok).result = "PermissionDenied"

\* A paid account is inside its window, at a later time than its claim.
C2_Witness ==
    \E c \in Callers :
        /\ user_map[c] # NoRecord
        /\ user_map[c].payout >= 1
        /\ now > user_map[c].timestamp
        /\ now - user_map[c].timestamp < limit_timer

\* ---------------------------------------------------------------------- C3

\* C3: after the contract has transferred a payout to an account (through
\* check_eligibility or get_coin), it makes no further payout transfer to
\* that account until rate_limit_window time units have elapsed, the
\* settings being fixed.
C3_PayoutsRateLimited ==
    \A c \in Callers, ip \in Addrs, ok \in BOOLEAN :
        last_paid[c] # -1 =>
            /\ check_eligibility_call(c, ip, ok).paid.amount >= 1
                  => now - last_paid[c] >= limit_timer
            /\ get_coin_call(c, ip, ok).paid.amount >= 1
                  => now - last_paid[c] >= limit_timer

\* ---------------------------------------------------------------------- C4

\* C4 as stated: in every reachable state the tag set of every address holds
\* at most max_accounts_per_address accounts.
C4_TagSetWithinCap ==
    \A ip \in Addrs : Len(ipaddress_count[ip]) <= limit_ip_total

\* C4 as amended: no call grows a tag set beyond the cap in force at that
\* call: whenever the tag set of an address grows, its new size is at most
\* max_accounts_per_address.  (set_payouts_and_fund may lower the cap below
\* the size a tag set already has.)
C4_GrowthWithinCap ==
    [][\A ip \in Addrs :
          Len(ipaddress_count'[ip]) > Len(ipaddress_count[ip])
              => Len(ipaddress_count'[ip]) <= limit_ip_total']_vars

\* A tag set has grown to a cap of two accounts.
C4_Witness ==
    \E ip \in Addrs : Len(ipaddress_count[ip]) = 2 /\ limit_ip_total = 2

\* ---------------------------------------------------------------------- C5

\* The claim predicate of the specification.
claim_predicate(c, ip) ==
    /\ (Cardinality(tag_set(ip)) < limit_ip_total \/ c \in tag_set(ip))
    /\ (elapsed(c) >= limit_timer \/ cumulative_payout(c) = 0)

\* C5: get_coin returns PermissionDenied exactly when the claim predicate is
\* false; an account outside the tag set of an address whose tag set has
\* reached the cap is denied; and a denied call changes no record, tag set,
\* counter or balance, transfers nothing and emits nothing.
C5_DeniedIffPredicateFalse ==
    \A c \in Callers, ip \in Addrs, ok \in BOOLEAN :
        LET call == get_coin_call(c, ip, ok)
            denied == call.result = "PermissionDenied"
        IN  /\ denied <=> ~claim_predicate(c, ip)
            /\ (c \notin tag_set(ip)
                  /\ Cardinality(tag_set(ip)) >= limit_ip_total) => denied
            /\ denied =>
                  /\ call.user_map = user_map
                  /\ call.ipaddress_count = ipaddress_count
                  /\ call.total_payouts = total_payouts
                  /\ call.total_pebble_accounts = total_pebble_accounts
                  /\ call.balance = balance
                  /\ call.paid = NoTransfer
                  /\ call.emitted = <<>>

\* An account that never claimed is denied at an address whose tag set has
\* reached a non-zero cap, and a paid account is denied inside its window at
\* an address it is registered with.
C5_Witness ==
    /\ \E c \in Callers, ip \in Addrs :
          /\ c \notin tag_set(ip)
          /\ user_map[c] = NoRecord
          /\ limit_ip_total >= 1
          /\ Len(ipaddress_count[ip]) = limit_ip_total
          /\ get_coin_call(c, ip, TRUE).result = "PermissionDenied"
    /\ \E c \in Callers, ip \in Addrs :
          /\ c \in tag_set(ip)
          /\ cumulative_payout(c) >= 1
          /\ elapsed(c) < limit_timer
          /\ get_coin_call(c, ip, TRUE).result = "PermissionDenied"

\* ---------------------------------------------------------------------- C6

\* C6: an account that is in the tag set of an address and whose cooldown has
\* elapsed is not denied by get_coin with that address, even when the tag set
\* has reached or exceeds the cap.
C6_Amnesty ==
    \A c \in Callers, ip \in Addrs, ok \in BOOLEAN :
        (c \in tag_set(ip) /\ elapsed(c) >= limit_timer)
            => get_coin_call(c, ip, ok).result # "PermissionDenied"

\* A paid account registered with an address whose tag set exceeds the cap
\* is a full window past its last claim, and its get_coin returns ok.
C6_Witness ==
    \E c \in Callers, ip \in Addrs :
        /\ c \in tag_set(ip)
        /\ limit_ip_total >= 1
        /\ Len(ipaddress_count[ip]) > limit_ip_total
        /\ limit_timer >= 1
        /\ cumulative_payout(c) >= 1
        /\ elapsed(c) >= limit_timer
        /\ get_coin_call(c, ip, TRUE).result = "Ok"

\* ---------------------------------------------------------------------- C7

\* GlobalSettings.admin_set
admin_set == rootset = 1

C7_SetRootInv ==
    \A c \in Callers, n \in Accounts :
        LET call == set_root_account_call(c, n)
        IN  /\ call.result = "Ok" <=> (~admin_set \/ c = root)
            /\ call.result = "Ok" => call.root = n /\ call.rootset = 1
            /\ call.result # "Ok" =>
                  /\ call.result = "PermissionDenied"
                  /\ call.root = root
                  /\ call.rootset = rootset

C7_SetRootStep ==
    /\ admin_set => admin_set'
    /\ (admin_set /\ root' # root) =>
          \E n \in Accounts : set_root_account(root, n)

\* C7: set_root_account(new_admin) succeeds iff admin_set is false or the
\* caller is the current admin_account; on success admin_account becomes
\* new_admin and admin_set is true; otherwise it returns PermissionDenied and
\* admin_account is unchanged.  admin_set never returns to false and, once it
\* is set, admin_account changes only in a step whose caller is the current
\* admin.
C7_SetRoot == []C7_SetRootInv /\ [][C7_SetRootStep]_vars

\* The admin is designated, and another caller is denied.
C7_Witness ==
    /\ admin_set
    /\ root = "B"
    /\ set_root_account_call("A", "A").result = "PermissionDenied"
    /\ set_root_account_call("B", "A").result = "Ok"

\* ---------------------------------------------------------------------- C8

C8_SetPayoutsInv ==
    \A c \in Callers, e \in EligibleChoices, g \in GetChoices,
       t \in TimerChoices, l \in IpTotalChoices, v \in FundChoices :
        LET call == set_payouts_and_fund_call(c, e, g, t, l, v)
        IN  /\ c # root =>
                  /\ call.result = "PermissionDenied"
                  /\ call.eligible_payout = eligible_payout
                  /\ call.get_payout = get_payout
                  /\ call.limit_timer = limit_timer
                  /\ call.limit_ip_total = limit_ip_total
                  /\ call.balance = balance
            /\ c = root =>
                  /\ call.result = "Ok"
                  /\ call.eligible_payout = e
                  /\ call.get_payout = g
                  /\ call.limit_timer = t
                  /\ call.limit_ip_total = l

C8_SetPayoutsStep ==
    settings' # settings =>
        /\ \E e \in EligibleChoices, g \in GetChoices, t \in TimerChoices,
              l \in IpTotalChoices, v \in FundChoices :
                set_payouts_and_fund(root, e, g, t, l, v)
        /\ UNCHANGED <<user_map, ipaddress_count, root, rootset,
                       total_pebble_accounts, total_payouts>>

\* C8: in every state, before any admin is designated included, a
\* set_payouts_and_fund call by a caller that is not admin_account returns
\* PermissionDenied and leaves the four settings (and the balance) unchanged;
\* a call by the admin overwrites all four with the supplied values, whatever
\* they are, and changes nothing else of the storage.  The four settings
\* change only in a step taken by the admin.
C8_SetPayouts == []C8_SetPayoutsInv /\ [][C8_SetPayoutsStep]_vars

\* The admin has set the four settings, and the other caller is denied.
C8_Witness ==
    /\ admin_set
    /\ root = "A"
    /\ eligible_payout = 1 /\ get_payout = 2
    /\ limit_timer = 2 /\ limit_ip_total = 2
    /\ set_payouts_and_fund_call("B", 1, 0, 2, 1, 0).result
          = "PermissionDenied"

\* ---------------------------------------------------------------------- C9

C9_PayoutInv ==
    /\ \A a \in Callers : cumulative_payout(a) <= BalanceMax
    /\ \A c \in Callers, ip \in Addrs, ok \in BOOLEAN :
          LET call == get_coin_call(c, ip, ok)
              sum == cumulative_payout(c) + get_payout
          IN  /\ call.result = "Ok" =>
                    /\ contains_key(call.user_map, c)
                    /\ call.user_map[c].payout =
                          IF sum < BalanceMax THEN sum ELSE BalanceMax
              /\ call.result # "Ok" => call.user_map[c] = user_map[c]
              /\ \A a \in Callers \ {c} : call.user_map[a] = user_map[a]

C9_PayoutStep ==
    user_map' # user_map =>
        /\ \A a \in Callers : cumulative_payout(a)' >= cumulative_payout(a)
        /\ \E c \in Callers, ip \in Addrs, ok \in BOOLEAN :
              get_coin(c, ip, ok) /\ get_coin_call(c, ip, ok).result = "Ok"

\* C9: for every account cumulative_payout never decreases and never exceeds
\* the maximum of its type: a successful get_coin sets it to
\* min(old + claim_payout, MAX), and no other call changes a record.
C9_Payout == []C9_PayoutInv /\ [][C9_PayoutStep]_vars

\* An account's cumulative_payout has saturated: a further claim_payout does
\* not fit.
C9_Witness ==
    \E a \in Callers :
        /\ user_map[a] # NoRecord
        /\ user_map[a].payout = BalanceMax
        /\ get_payout >= 1
        /\ total_payouts = BalanceMax

\* --------------------------------------------------------------------- C10

C10_TagSetInv ==
    /\ \A ip \in Addrs :
          \A i, j \in 1..Len(ipaddress_count[ip]) :
              i # j => ipaddress_count[ip][i] # ipaddress_count[ip][j]
    /\ \A c \in Callers, ip \in Addrs, ok \in BOOLEAN :
          LET call == get_coin_call(c, ip, ok)
          IN  /\ \A other \in Addrs \ {ip} :
                    call.ipaddress_count[other] = ipaddress_count[other]
              /\ call.ipaddress_count[ip] =
                    IF call.result = "Ok" /\ c \notin tag_set(ip)
                    THEN Append(ipaddress_count[ip], c)
                    ELSE ipaddress_count[ip]

C10_TagSetStep ==
    \A ip \in Addrs :
        ipaddress_count'[ip] # ipaddress_count[ip] =>
            \E c \in Callers :
                /\ c \notin tag_set(ip)
                /\ ipaddress_count'[ip] = Append(ipaddress_count[ip], c)
                /\ \E ok \in BOOLEAN :
                      /\ get_coin(c, ip, ok)
                      /\ get_coin_call(c, ip, ok).result = "Ok"

\* C10: in every reachable state no tag set holds an account twice, and tag
\* sets are append-only: across a step a tag set keeps its sequence as a
\* prefix, and it grows, by exactly the caller, only on a successful get_coin
\* with that address by an account not already in it.
C10_TagSet == []C10_TagSetInv /\ [][C10_TagSetStep]_vars

\* A tag set holds two accounts, and one of them has claimed again with it.
C10_Witness ==
    \E ip \in Addrs :
        /\ Len(ipaddress_count[ip]) = 2
        /\ \E c \in tag_set(ip) :
              /\ user_map[c].ip_address = ip
              /\ user_map[c].payout > get_payout
              /\ get_payout >= 1

\* --------------------------------------------------------------------- C11

\* GlobalSettings.total_accounts_onboarded
total_accounts_onboarded == total_pebble_accounts

\* The accounts that have a record.
recorded == {a \in Callers : user_map[a] # NoRecord}

C11_OnboardedInv ==
    /\ total_accounts_onboarded < BalanceMax
          => total_accounts_onboarded = Cardinality(recorded)
    /\ \A c \in Callers, ip \in Addrs, ok \in BOOLEAN :
          LET call == get_coin_call(c, ip, ok)
          IN  call.total_pebble_accounts =
                 IF call.result = "Ok" /\ c \notin recorded
                 THEN total_accounts_onboarded + 1
                 ELSE total_accounts_onboarded

C11_OnboardedStep ==
    total_accounts_onboarded' # total_accounts_onboarded =>
        /\ total_accounts_onboarded' = total_accounts_onboarded + 1
        /\ \E c \in Callers \ recorded :
              /\ user_map'[c] # NoRecord
              /\ \E ip \in Addrs, ok \in BOOLEAN :
                    /\ get_coin(c, ip, ok)
                    /\ get_coin_call(c, ip, ok).result = "Ok"

\* C11: total_accounts_onboarded increases by exactly 1 on a successful
\* get_coin by an account that had no record before the call and is
\* unchanged by every other step; below saturation it equals, in every
\* reachable state, the number of accounts that have a record.
C11_Onboarded == []C11_OnboardedInv /\ [][C11_OnboardedStep]_vars

\* Both accounts are onboarded and one of them has claimed more than once.
C11_Witness ==
    /\ total_accounts_onboarded = 2
    /\ recorded = Callers
    /\ get_payout >= 1
    /\ \E a \in Callers : user_map[a].payout > get_payout

\* --------------------------------------------------------------------- C12

\* C12: when the verdict of get_coin is ALLOW, the contract balance strictly
\* exceeds claim_payout and the transfer fails, get_coin returns PayoutFailed,
\* the record, the tag set, total_payout_volume and total_accounts_onboarded
\* are unchanged, and no notification is emitted.
C12_PayoutFailed ==
    \A c \in Callers, ip \in Addrs :
        (claim_predicate(c, ip) /\ balance > get_payout) =>
            LET call == get_coin_call(c, ip, FALSE)
            IN  /\ call.result = "PayoutFailed"
                /\ call.user_map = user_map
                /\ call.ipaddress_count = ipaddress_count
                /\ call.total_payouts = total_payouts
                /\ call.total_pebble_accounts = total_pebble_accounts
                /\ call.balance = balance
                /\ call.paid = NoTransfer
                /\ call.emitted = <<>>

\* A non-zero payout is due to an allowed account, the balance exceeds it,
\* and the call with a failing transfer returns PayoutFailed.
C12_Witness ==
    \E c \in Callers, ip \in Addrs :
        /\ claim_predicate(c, ip)
        /\ get_payout >= 1
        /\ balance > get_payout
        /\ user_map[c] # NoRecord
        /\ get_coin_call(c, ip, FALSE).result = "PayoutFailed"

\* --------------------------------------------------------------------- C13

\* C13: when the verdict of get_coin is ALLOW and the contract balance is at
\* most claim_payout, no transfer is attempted and the balance is unchanged,
\* yet the call returns ok, updates the record (cumulative_payout,
\* last_claimed_address, last_claim_timestamp), the tag set,
\* total_payout_volume and total_accounts_onboarded, and emits one
\* notification with amount claim_payout.
C13_BalanceFloorSkip ==
    \A c \in Callers, ip \in Addrs, ok \in BOOLEAN :
        (claim_predicate(c, ip) /\ balance <= get_payout) =>
            LET call == get_coin_call(c, ip, ok)
                sum == cumulative_payout(c) + get_payout
                volume == total_payouts + get_payout
            IN  /\ call.result = "Ok"
                /\ call.paid = NoTransfer
                /\ call.balance = balance
                /\ call.user_map[c] # NoRecord
                /\ call.user_map[c].payout =
                      IF sum < BalanceMax THEN sum ELSE BalanceMax
                /\ call.user_map[c].ip_address = ip
                /\ call.user_map[c].timestamp = now
                /\ c \in {call.ipaddress_count[ip][i] :
                             i \in 1..Len(call.ipaddress_count[ip])}
                /\ call.total_payouts =
                      IF volume < BalanceMax THEN volume ELSE BalanceMax
                /\ call.total_pebble_accounts =
                      IF c \in recorded
                      THEN total_pebble_accounts
                      ELSE total_pebble_accounts + 1
                /\ call.emitted = <<[timestamp |-> now, user_ip |-> ip,
                                     pebble |-> c, payout |-> get_payout]>>

\* An account holds a record of a non-zero claim made while the contract had
\* no balance at all.
C13_Witness ==
    \E c \in Callers :
        /\ balance = 0
        /\ get_payout >= 1
        /\ user_map[c] # NoRecord
        /\ user_map[c].payout >= get_payout
        /\ total_payouts >= get_payout

\* --------------------------------------------------------------------- C14

\* The verdict of check_eligibility on the spec's predicate.
ALLOW(c, ip) == claim_predicate(c, ip)

\* C14 as stated: 0 exactly on DENY, 1 exactly when the verdict is ALLOW and
\* eligible_payout was transferred to the caller, 2 exactly when the verdict
\* is ALLOW and the transfer failed.
C14_StatusCodes ==
    \A c \in Callers, ip \in Addrs, ok \in BOOLEAN :
        LET call == check_eligibility_call(c, ip, ok)
        IN  /\ call.result = 0 <=> ~ALLOW(c, ip)
            /\ call.result = 1 <=>
                  /\ ALLOW(c, ip)
                  /\ call.paid = [to |-> c, amount |-> eligible_payout]
            /\ call.result = 2 <=>
                  ALLOW(c, ip) /\ transfer_fails(eligible_payout, ok)

\* C14: check_eligibility returns 0 exactly when the verdict is DENY, 2
\* exactly when the verdict is ALLOW and the transfer was attempted (balance
\* above eligible_payout) and failed, and 1 exactly when the verdict is ALLOW
\* and no transfer failed: eligible_payout was transferred to the caller, or
\* the balance did not exceed eligible_payout and nothing was transferred.
C14_StatusCodesWithSkip ==
    \A c \in Callers, ip \in Addrs, ok \in BOOLEAN :
        LET call == check_eligibility_call(c, ip, ok)
            paid == call.paid = [to |-> c, amount |-> eligible_payout]
            skipped == balance <= eligible_payout
        IN  /\ call.result \in {0, 1, 2}
            /\ call.result = 0 <=> ~ALLOW(c, ip)
            /\ call.result = 2 <=>
                  ALLOW(c, ip) /\ transfer_fails(eligible_payout, ok)
            /\ call.result = 1 <=>
                  ALLOW(c, ip) /\ ~transfer_fails(eligible_payout, ok)
            /\ call.result = 1 => (paid \/ skipped) /\ ~(paid /\ skipped)
            /\ skipped \/ call.result # 1 =>
                  call.paid = NoTransfer /\ call.balance = balance
            /\ paid => call.balance = balance - eligible_payout

\* With the balance at the floor an allowed call returns 1 with nothing paid,
\* whatever the transfer would have done, while another call is denied.
C14_Witness ==
    /\ eligible_payout >= 1
    /\ balance = eligible_payout
    /\ \E c \in Callers, ip \in Addrs :
          /\ ALLOW(c, ip)
          /\ check_eligibility_call(c, ip, FALSE).result = 1
          /\ check_eligibility_call(c, ip, FALSE).paid = NoTransfer
    /\ \E c \in Callers, ip \in Addrs :
          check_eligibility_call(c, ip, TRUE).result = 0

\* --------------------------------------------------------------------- C15

\* What any account can observe of the storage through the read-only
\* message and the two predicates.
observed ==
    [a \in Callers |->
        [verified |-> verify_account(a),
         claim |-> [ip \in Addrs |-> claim_allowed(a, ip)],
         check |-> [ip \in Addrs |-> check_allowed(a, ip)]]]

C15_CheckInv ==
    \A c \in Callers, ip \in Addrs, ok \in BOOLEAN :
        LET call == check_eligibility_call(c, ip, ok)
        IN  /\ call.paid \in {NoTransfer,
                              [to |-> c, amount |-> eligible_payout]}
            /\ call.balance = balance - call.paid.amount
            /\ Len(call.emitted) <= 1

C15_CheckStep ==
    (/\ vars' # vars
     /\ \E c \in Callers, ip \in Addrs, ok \in BOOLEAN :
           check_eligibility(c, ip, ok)) =>
        /\ user_map' = user_map
        /\ ipaddress_count' = ipaddress_count
        /\ settings' = settings
        /\ root' = root /\ rootset' = rootset
        /\ total_pebble_accounts' = total_pebble_accounts
        /\ total_payouts' = total_payouts
        /\ balance' \in {balance, balance - eligible_payout}
        /\ observed' = observed

\* C15: check_eligibility never changes any account record, any tag set, any
\* setting, the admin, or either counter, whatever its verdict; its only
\* effects are a possible transfer of eligible_payout from the contract
\* balance and an appended notification.  It never makes verify_account
\* return 1 and never starts a cooldown.
C15_CheckChangesNothing == []C15_CheckInv /\ [][C15_CheckStep]_vars

\* The balance is below its initial funding although no claim was ever
\* recorded: a check_eligibility call has paid an account that verify_account
\* still reports as 0.
C15_Witness ==
    /\ recorded = {}
    /\ total_payouts = 0
    /\ eligible_payout >= 1
    /\ balance \in 1..(BalanceMax - 1)
    /\ \A a \in Callers : verify_account(a) = 0

\* --------------------------------------------------------------------- C16

C16_VerifyInv ==
    \A a \in Callers :
        /\ verify_account(a) \in {0, 1}
        /\ verify_account(a) = 1 <=> a \in recorded
        /\ \A ip \in Addrs, ok \in BOOLEAN :
              LET call == get_coin_call(a, ip, ok)
              IN  /\ call.result = "Ok" => call.user_map[a] # NoRecord
                  /\ call.result # "Ok" => call.user_map[a] = user_map[a]

C16_VerifyStep ==
    \A a \in Callers :
        /\ verify_account(a) = 1 => verify_account(a)' = 1
        /\ verify_account(a)' # verify_account(a) =>
              \E ip \in Addrs, ok \in BOOLEAN :
                  /\ get_coin(a, ip, ok)
                  /\ get_coin_call(a, ip, ok).result = "Ok"

\* C16: verify_account(a) returns 1 iff account a has made at least one
\* successful get_coin call in the history (equivalently, has a record), and
\* 0 otherwise; once it returns 1 for an account it returns 1 in every later
\* state.  No account is verified initially, and verify_account changes, from
\* 0 to 1, only in a successful get_coin step of that account.
C16_Verify ==
    /\ \A a \in Callers : verify_account(a) = 0
    /\ []C16_VerifyInv
    /\ [][C16_VerifyStep]_vars

\* One account is verified on a claim that credited nothing, the other one is
\* not, although the ledger clock has advanced.
C16_Witness ==
    \E a, b \in Callers :
        /\ verify_account(a) = 1
        /\ cumulative_payout(a) = 0
        /\ verify_account(b) = 0
        /\ now = MaxTime

\* --------------------------------------------------------------------- C17

\* C17: the check-only predicate and the claim predicate are equivalent: in
\* every reachable state, for every caller, address and time,
\* check_eligibility returns a non-zero status iff get_coin called in the same
\* state would not return PermissionDenied.
C17_PredicatesAgree ==
    \A c \in Callers, ip \in Addrs :
        /\ check_allowed(c, ip) <=> claim_allowed(c, ip)
        /\ \A ok1, ok2 \in BOOLEAN :
              check_eligibility_call(c, ip, ok1).result # 0
                 <=> get_coin_call(c, ip, ok2).result # "PermissionDenied"

\* Inside the window an account with a record of payout 0 is allowed by both,
\* while an account that was credited is denied by both.
C17_Witness ==
    \E a, b \in Callers, ip \in Addrs :
        /\ limit_timer >= 1
        /\ user_map[a] # NoRecord /\ user_map[a].payout = 0
        /\ time_since(a) < limit_timer
        /\ check_eligibility_call(a, ip, TRUE).result = 1
        /\ get_coin_call(a, ip, TRUE).result = "Ok"
        /\ user_map[b] # NoRecord /\ user_map[b].payout >= 1
        /\ check_eligibility_call(b, ip, TRUE).result = 0
        /\ get_coin_call(b, ip, TRUE).result = "PermissionDenied"

\* --------------------------------------------------------------------- C18

\* C18: on every ALLOW verdict check_eligibility appends exactly one
\* notification (now, address, caller, eligible_payout) carrying the nominal
\* eligible_payout, whether the transfer succeeded, failed, or was skipped
\* because the balance did not strictly exceed eligible_payout; on DENY it
\* appends none.
C18_OneNotificationOnAllow ==
    \A c \in Callers, ip \in Addrs, ok \in BOOLEAN :
        LET call == check_eligibility_call(c, ip, ok)
        IN  call.emitted =
               IF ALLOW(c, ip)
               THEN <<[timestamp |-> now, user_ip |-> ip, pebble |-> c,
                       payout |-> eligible_payout]>>
               ELSE <<>>

\* An allowed call at the balance floor (transfer skipped), or one above it
\* whose transfer fails, with a non-zero eligible_payout.
C18_Witness ==
    \E c \in Callers, ip \in Addrs :
        /\ ALLOW(c, ip)
        /\ eligible_payout >= 1
        /\ now >= 1
        /\ \/ balance = eligible_payout
           \/ check_eligibility_call(c, ip, FALSE).result = 2
        /\ check_eligibility_call(c, ip, FALSE).paid = NoTransfer
        /\ Len(check_eligibility_call(c, ip, FALSE).emitted) = 1
        /\ \E d \in Callers : ~ALLOW(d, ip)

\* --------------------------------------------------------------------- C19

C19_FloorInv ==
    \A c \in Callers, ip \in Addrs, ok \in BOOLEAN :
        LET check == check_eligibility_call(c, ip, ok)
            claim == get_coin_call(c, ip, ok)
        IN  /\ check.paid # NoTransfer =>
                  /\ balance > eligible_payout
                  /\ check.paid.amount = eligible_payout
                  /\ check.balance = balance - eligible_payout
                  /\ check.balance >= 1
            /\ claim.paid # NoTransfer =>
                  /\ balance > get_payout
                  /\ claim.paid.amount = get_payout
                  /\ claim.balance = balance - get_payout
                  /\ claim.balance >= 1
            /\ check.result = 2 => balance > eligible_payout
            /\ claim.result = "PayoutFailed" => balance > get_payout

C19_FloorStep ==
    /\ balance' < balance => balance' >= 1
    /\ balance >= 1 => balance' >= 1

\* C19: a payout transfer (from check_eligibility or get_coin) is attempted
\* only when the contract balance strictly exceeds the payout amount, so every
\* successful payout transfer leaves the contract balance at least 1; no
\* sequence of payout calls reduces a positive contract balance to zero.
C19_BalanceFloor == []C19_FloorInv /\ [][C19_FloorStep]_vars

\* Transfers have brought the balance down to 1, where neither payout can be
\* transferred any more although both calls are allowed.
C19_Witness ==
    /\ balance = 1
    /\ eligible_payout >= 1
    /\ get_payout >= 1
    /\ \E c \in Callers, ip \in Addrs :
          /\ check_eligibility_call(c, ip, TRUE).result = 1
          /\ check_eligibility_call(c, ip, TRUE).paid = NoTransfer
          /\ get_coin_call(c, ip, TRUE).result = "Ok"
          /\ get_coin_call(c, ip, TRUE).paid = NoTransfer

\* --------------------------------------------------------------------- C20

\* GlobalSettings.total_payout_volume
total_payout_volume == total_payouts

\* The sum of cumulative_payout over the records of the given accounts.
RECURSIVE payout_sum(_)
payout_sum(S) ==
    IF S = {}
    THEN 0
    ELSE LET a == CHOOSE x \in S : TRUE
         IN  cumulative_payout(a) + payout_sum(S \ {a})

C20_VolumeInv ==
    /\ total_payout_volume < BalanceMax
          => total_payout_volume = payout_sum(Callers)
    /\ total_payout_volume = BalanceMax => payout_sum(Callers) >= BalanceMax
    /\ \A c \in Callers, ip \in Addrs, ok \in BOOLEAN :
          LET call == get_coin_call(c, ip, ok)
          IN  IF call.result = "Ok"
              THEN call.total_payouts < BalanceMax =>
                      /\ call.total_payouts = total_payout_volume + get_payout
                      /\ call.user_map[c].payout =
                            cumulative_payout(c) + get_payout
              ELSE call.total_payouts = total_payout_volume

C20_VolumeStep == total_payout_volume' >= total_payout_volume

\* C20: below saturation, in every reachable state total_payout_volume equals
\* the sum of cumulative_payout over all account records (each successful
\* get_coin adds the same claim_payout to both, including when the transfer
\* was skipped), and total_payout_volume never decreases.
C20_Volume == []C20_VolumeInv /\ [][C20_VolumeStep]_vars

\* Two accounts were credited while the contract had no balance, and the
\* volume is still below saturation.
C20_Witness ==
    /\ balance = 0
    /\ \A a \in Callers : cumulative_payout(a) >= 1
    /\ total_payout_volume < BalanceMax
    /\ total_payout_volume = payout_sum(Callers)

====
